---- MODULE Spec2Model ----
(***************************************************************************)
(* A model of the MetaTrader 5 MCP server in its two variants:             *)
(*   "js" : src/server.js        (hand-written stdio framer, 8 tools)      *)
(*   "ts" : src/src/mt5-server.ts (SDK transport, 12 tools)                *)
(*                                                                         *)
(* JavaScript values are atoms (strings "num:7", "str:EURUSD", ...) with   *)
(* typeof / truthiness tables.  Text is a sequence of one-character        *)
(* strings, so that String.length (UTF-16 units) and the UTF-8 byte length *)
(* are different measures.                                                 *)
(***************************************************************************)
EXTENDS Integers, Sequences, FiniteSets, TLC

\* ------------------------------------------------------------------ bounds
\* How many fields of a valid argument object an input may change.
MaxDeviations == 1
\* How many frames the input stream holds.
MaxFrames == 2

\* ------------------------------------------------------ JavaScript values
Undefined == "undefined"
JsNull == "null"
Numbers == {"num:0", "num:7", "num:0.1"}
Strings ==
  {"str:", "str:EURUSD", "str:BUY", "str:abc", "str:H1", "str:x.ex5",
   "str:2024-01-01", "str:MT5 not initialized", "str:genetic", "str:all_possible",
   "str:csv", "str:json"}
Objects == {"obj:{}"}
Booleans == {"bool:true"}

\* The values a field of an input argument object is changed to.
FieldValues ==
  {Undefined, JsNull, "num:0", "num:7", "str:", "str:abc", "str:genetic", "str:json",
   "obj:{}", "bool:true"}

\* typeof v
TypeOf(v) ==
  CASE v = Undefined -> "undefined"
    [] v = JsNull -> "object"
    [] v \in Numbers -> "number"
    [] v \in Strings -> "string"
    [] v \in Objects -> "object"
    [] v \in Booleans -> "boolean"

\* ToBoolean(v): what `v ? a : b` and `v || b` test.
Truthy(v) == v \notin {Undefined, JsNull, "num:0", "str:"}

\* `${v}` inside a template literal: the text of the value.
TemplateStr(v) ==
  CASE v = "num:0" -> "0"
    [] v = "num:7" -> "7"
    [] v = "num:0.1" -> "0.1"
    [] v = "str:" -> ""
    [] v = "str:EURUSD" -> "EURUSD"
    [] v = "str:BUY" -> "BUY"
    [] v = "str:abc" -> "abc"
    [] v = "str:H1" -> "H1"
    [] v = "str:x.ex5" -> "x.ex5"
    [] v = "str:2024-01-01" -> "2024-01-01"
    [] v = "str:MT5 not initialized" -> "MT5 not initialized"
    [] v = "str:genetic" -> "genetic"
    [] v = "str:all_possible" -> "all_possible"
    [] v = "str:csv" -> "csv"
    [] v = "str:json" -> "json"
    [] v = "obj:{}" -> "[object Object]"
    [] v = "bool:true" -> "true"
    [] OTHER -> v

\* ------------------------------------------------------- argument objects
AllFields ==
  {"account", "symbol", "type", "volume", "price", "sl", "tp", "comment",
   "ticket", "ea", "period", "date_from", "date_to", "deposit", "params",
   "optimization_mode", "other_options", "optimization_id", "format", "path",
   "extra"}

\* An object none of whose properties is set: every read gives undefined.
EmptyFields == [f \in AllFields |-> Undefined]

\* request.params.arguments: absent, null, a primitive, or an object.
ArgsOf(kind, fields) == [kind |-> kind, fields |-> fields]

\* typeof args
TypeOfArgs(args) ==
  CASE args.kind = "undefined" -> "undefined"
    [] args.kind = "null" -> "object"
    [] args.kind = "number" -> "number"
    [] args.kind = "string" -> "string"
    [] args.kind = "object" -> "object"

\* args.f for an args that is not null or undefined (a primitive has no such
\* property and reads undefined).
Get(args, f) == IF args.kind = "object" THEN args.fields[f] ELSE Undefined

\* typeof args === 'object' && args !== null
IsNonNullObject(args) == TypeOfArgs(args) = "object" /\ args.kind # "null"

\* ------------------------------------------------- type validation functions
isAccountInfoArg(args) ==
  /\ IsNonNullObject(args)
  /\ (Get(args, "account") = Undefined \/ TypeOf(Get(args, "account")) = "number")

isSymbolPriceArg(args) ==
  /\ IsNonNullObject(args)
  /\ TypeOf(Get(args, "symbol")) = "string"

\* A guard that turns down an object with a property the tool does not declare.
isOrderArgStrict(args) ==
  /\ IsNonNullObject(args)
  /\ TypeOf(Get(args, "symbol")) = "string"
  /\ TypeOf(Get(args, "type")) = "string"
  /\ TypeOf(Get(args, "volume")) = "number"
  /\ Get(args, "extra") = Undefined

isOrderArg(args) ==
  /\ IsNonNullObject(args)
  /\ TypeOf(Get(args, "symbol")) = "string"
  /\ TypeOf(Get(args, "type")) = "string"
  /\ TypeOf(Get(args, "volume")) = "number"

isModifyOrderArg(args) ==
  /\ IsNonNullObject(args)
  /\ TypeOf(Get(args, "ticket")) = "number"

isCloseOrderArg(args) ==
  /\ IsNonNullObject(args)
  /\ TypeOf(Get(args, "ticket")) = "number"

isRunOptimizationArg(args) ==
  /\ IsNonNullObject(args)
  /\ TypeOf(Get(args, "symbol")) = "string"
  /\ TypeOf(Get(args, "ea")) = "string"
  /\ TypeOf(Get(args, "period")) = "string"
  /\ TypeOf(Get(args, "date_from")) = "string"
  /\ TypeOf(Get(args, "date_to")) = "string"
  /\ TypeOf(Get(args, "deposit")) = "number"
  /\ TypeOf(Get(args, "params")) = "object"

isOptimizationIdArg(args) ==
  /\ IsNonNullObject(args)
  /\ TypeOf(Get(args, "optimization_id")) = "string"

isSaveOptimizationResultsArg(args) ==
  /\ IsNonNullObject(args)
  /\ TypeOf(Get(args, "optimization_id")) = "string"

\* ------------------------------------------------------------ tool catalogs
\* The names of the `tools` array of server.js, in its order.
tools ==
  <<"get_account_info", "get_symbol_price", "get_open_positions",
    "get_pending_orders", "create_order", "modify_order", "close_position",
    "delete_order">>

\* A catalog that lists the optimization tools first.
toolsTsReordered ==
  <<"run_optimization", "get_optimization_status", "get_optimization_results",
    "save_optimization_results">> \o tools

\* The names the ListTools handler of mt5-server.ts returns, in its order.
toolsTs ==
  tools \o <<"run_optimization", "get_optimization_status",
             "get_optimization_results", "save_optimization_results">>

Catalog(v) == IF v = "js" THEN tools ELSE toolsTs

Range(s) == {s[i] : i \in 1..Len(s)}

\* inputSchema.required of each tool.
Required(name) ==
  CASE name = "get_symbol_price" -> {"symbol"}
    [] name = "create_order" -> {"symbol", "type", "volume"}
    [] name \in {"modify_order", "close_position", "delete_order"} -> {"ticket"}
    [] name = "run_optimization" ->
         {"symbol", "ea", "period", "date_from", "date_to", "deposit", "params"}
    [] name \in {"get_optimization_status", "get_optimization_results",
                 "save_optimization_results"} -> {"optimization_id"}
    [] OTHER -> {}

\* inputSchema.properties of each tool.
Declared(name) ==
  CASE name = "get_account_info" -> {"account"}
    [] name = "create_order" ->
         {"symbol", "type", "volume", "price", "sl", "tp", "comment"}
    [] name = "modify_order" -> {"ticket", "sl", "tp"}
    [] name = "run_optimization" ->
         Required(name) \cup {"optimization_mode", "other_options"}
    [] name = "save_optimization_results" -> {"optimization_id", "format", "path"}
    [] OTHER -> Required(name)

\* The `type` an inputSchema gives a property (the same in every tool that
\* declares the property).
DeclaredType(f) ==
  CASE f \in {"account", "volume", "price", "sl", "tp", "ticket", "deposit"} -> "number"
    [] f \in {"params", "other_options"} -> "object"
    [] OTHER -> "string"

\* The `enum` an inputSchema gives a property; no enum admits every value.
DeclaredEnum(f) ==
  CASE f = "optimization_mode" -> {"str:genetic", "str:all_possible"}
    [] f = "format" -> {"str:csv", "str:json"}
    [] OTHER -> Strings \cup Numbers \cup Objects

\* ---------------------------------------------------------------- errors
MethodNotFound == -32601
InvalidParams == -32602
InternalError == -32603

\* A thrown value: its class, its code (McpError only), its message (the
\* pieces of its text) and, for an AxiosError, error.response?.data?.message
\* (undefined without a response).
ErrorOf(cls, code, msg, respMsg) ==
  [cls |-> cls, code |-> code, msg |-> msg, respMsg |-> respMsg]

NoError == ErrorOf("none", 0, <<>>, Undefined)

\* axios.isAxiosError(error)
isAxiosError(err) == err.cls = "AxiosError"

\* ------------------------------------------------------------- HTTP calls
EmptyBody == [present |-> FALSE, fields |-> EmptyFields]
BodyOf(fields) == [present |-> TRUE, fields |-> fields]

\* One request of an axios client: apiClient (Account backend) or flaskClient
\* (Optimization backend).  The path is the template's pieces.
CallOf(client, method, path, body) ==
  [client |-> client, method |-> method, path |-> path, body |-> body]

NoCall == CallOf("none", "none", <<>>, EmptyBody)

\* What a handler does up to its first await: it throws, or it issues a call.
Throw(err) == [kind |-> "throw", err |-> err, call |-> NoCall]
Http(call) == [kind |-> "http", err |-> NoError, call |-> call]

\* The exception of the argument check: a plain Error in server.js, an McpError
\* with ErrorCode.InvalidParams in mt5-server.ts.
InvalidArguments(v, msg) ==
  IF v = "js"
  THEN Throw(ErrorOf("Error", 0, <<msg>>, Undefined))
  ELSE Throw(ErrorOf("McpError", InvalidParams, <<msg>>, Undefined))

\* --------------------------------------------------------------- handlers
handleGetAccountInfo(v, args) ==
  IF ~isAccountInfoArg(args)
  THEN InvalidArguments(v, "Invalid account info arguments")
  ELSE Http(CallOf("api", "GET",
                   IF Truthy(Get(args, "account"))
                   THEN <<"/account/", TemplateStr(Get(args, "account"))>>
                   ELSE <<"/account">>,
                   EmptyBody))

handleGetSymbolPrice(v, args) ==
  IF ~isSymbolPriceArg(args)
  THEN InvalidArguments(v, "Invalid symbol price arguments")
  ELSE Http(CallOf("api", "GET", <<"/symbol/", TemplateStr(Get(args, "symbol"))>>,
                   EmptyBody))

handleGetOpenPositions == Http(CallOf("api", "GET", <<"/positions">>, EmptyBody))

handleGetPendingOrders == Http(CallOf("api", "GET", <<"/orders">>, EmptyBody))

handleCreateOrder(v, args) ==
  IF ~isOrderArg(args)
  THEN InvalidArguments(v, "Invalid order arguments")
  ELSE Http(CallOf("api", "POST", <<"/order">>, BodyOf(args.fields)))

\* modify_order written like create_order: the whole argument object as body.
handleModifyOrderForwardsAll(v, args) ==
  IF ~isModifyOrderArg(args)
  THEN InvalidArguments(v, "Invalid modify order arguments")
  ELSE Http(CallOf("api", "PUT", <<"/order/", TemplateStr(Get(args, "ticket"))>>,
                   BodyOf(args.fields)))

handleModifyOrder(v, args) ==
  IF ~isModifyOrderArg(args)
  THEN InvalidArguments(v, "Invalid modify order arguments")
  ELSE Http(CallOf("api", "PUT", <<"/order/", TemplateStr(Get(args, "ticket"))>>,
                   BodyOf([EmptyFields EXCEPT !["sl"] = Get(args, "sl"),
                                              !["tp"] = Get(args, "tp")])))

handleClosePosition(v, args) ==
  IF ~isCloseOrderArg(args)
  THEN InvalidArguments(v, "Invalid close position arguments")
  ELSE Http(CallOf("api", "DELETE",
                   <<"/position/", TemplateStr(Get(args, "ticket"))>>, EmptyBody))

handleDeleteOrder(v, args) ==
  IF ~isCloseOrderArg(args)
  THEN InvalidArguments(v, "Invalid delete order arguments")
  ELSE Http(CallOf("api", "DELETE",
                   <<"/order/", TemplateStr(Get(args, "ticket"))>>, EmptyBody))

handleRunOptimization(v, args) ==
  IF ~isRunOptimizationArg(args)
  THEN InvalidArguments(v, "Invalid run_optimization arguments")
  ELSE Http(CallOf("flask", "POST", <<"/optimize">>, BodyOf(args.fields)))

handleGetOptimizationStatus(v, args) ==
  IF ~isOptimizationIdArg(args)
  THEN InvalidArguments(v, "Invalid get_optimization_status arguments")
  ELSE Http(CallOf("flask", "GET",
                   <<"/optimization_status/", TemplateStr(Get(args, "optimization_id"))>>,
                   EmptyBody))

handleGetOptimizationResults(v, args) ==
  IF ~isOptimizationIdArg(args)
  THEN InvalidArguments(v, "Invalid get_optimization_results arguments")
  ELSE Http(CallOf("flask", "GET",
                   <<"/optimization_results/", TemplateStr(Get(args, "optimization_id"))>>,
                   EmptyBody))

handleSaveOptimizationResults(v, args) ==
  IF ~isSaveOptimizationResultsArg(args)
  THEN InvalidArguments(v, "Invalid save_optimization_results arguments")
  ELSE Http(CallOf("flask", "POST", <<"/save_results">>, BodyOf(args.fields)))

\* The `default:` of the switch on request.params.name.
UnknownTool == [kind |-> "unknown", err |-> NoError, call |-> NoCall]

\* A switch whose unknown names fall through to a handler, not to `default:`.
SwitchAccountToolsFallThrough(v, name, args) ==
  CASE name = "get_account_info" -> handleGetAccountInfo(v, args)
    [] name = "get_symbol_price" -> handleGetSymbolPrice(v, args)
    [] name = "get_pending_orders" -> handleGetPendingOrders
    [] name = "create_order" -> handleCreateOrder(v, args)
    [] name = "modify_order" -> handleModifyOrder(v, args)
    [] name = "close_position" -> handleClosePosition(v, args)
    [] name = "delete_order" -> handleDeleteOrder(v, args)
    [] OTHER -> handleGetOpenPositions

\* switch (request.params.name): the eight cases both variants have.
SwitchAccountTools(v, name, args) ==
  CASE name = "get_account_info" -> handleGetAccountInfo(v, args)
    [] name = "get_symbol_price" -> handleGetSymbolPrice(v, args)
    [] name = "get_open_positions" -> handleGetOpenPositions
    [] name = "get_pending_orders" -> handleGetPendingOrders
    [] name = "create_order" -> handleCreateOrder(v, args)
    [] name = "modify_order" -> handleModifyOrder(v, args)
    [] name = "close_position" -> handleClosePosition(v, args)
    [] name = "delete_order" -> handleDeleteOrder(v, args)
    [] OTHER -> UnknownTool

\* The switch of mt5-server.ts with the case of save_optimization_results
\* left out, its tool still in the catalog.
SwitchAllToolsWithoutSave(v, name, args) ==
  CASE name = "run_optimization" -> handleRunOptimization(v, args)
    [] name = "get_optimization_status" -> handleGetOptimizationStatus(v, args)
    [] name = "get_optimization_results" -> handleGetOptimizationResults(v, args)
    [] OTHER -> SwitchAccountTools(v, name, args)

\* switch (request.params.name) of mt5-server.ts: four more cases.
SwitchAllTools(v, name, args) ==
  CASE name = "run_optimization" -> handleRunOptimization(v, args)
    [] name = "get_optimization_status" -> handleGetOptimizationStatus(v, args)
    [] name = "get_optimization_results" -> handleGetOptimizationResults(v, args)
    [] name = "save_optimization_results" -> handleSaveOptimizationResults(v, args)
    [] OTHER -> SwitchAccountTools(v, name, args)

\* -------------------------------------------------------- backend outcomes
\* What the awaited axios call comes back with: a 2xx response with its data,
\* an error response (non-2xx, with error.response.data.message absent, empty
\* or set), a failure with no response at all, or ("other") an exception that
\* is no AxiosError, thrown under the await before a request was sent.
OutcomeOf(kind, data, respMsg, msg) ==
  [kind |-> kind, data |-> data, respMsg |-> respMsg, msg |-> msg]

Outcomes ==
  {OutcomeOf("ok", "data:{ticket:123}", Undefined, <<>>)}
  \cup {OutcomeOf("status", "none", m, <<"Request failed with status code 500">>) :
          m \in {Undefined, "str:", "str:MT5 not initialized"}}
  \cup {OutcomeOf("transport", "none", Undefined, <<"connect ECONNREFUSED 127.0.0.1:5555">>)}
  \cup {OutcomeOf("other", "none", Undefined, <<"Invalid character in header content">>)}

NoOutcome == OutcomeOf("none", "none", Undefined, <<>>)

\* The AxiosError a failed call rejects with.
AxiosErrorOf(o) == ErrorOf("AxiosError", 0, o.msg, o.respMsg)

\* What the rejected await throws into the catch block.
RejectionOf(o) ==
  IF o.kind = "other" THEN ErrorOf("TypeError", 0, o.msg, Undefined) ELSE AxiosErrorOf(o)

\* JSON.stringify(response.data, null, 2): indented by two spaces.
JSONstringify2(data) ==
  CASE data = "data:{ticket:123}" -> "{\n  \"ticket\": 123\n}"
    [] OTHER -> "null"

\* --------------------------------------------------------------- envelopes
\* A JSON-RPC response: its id, its tag (result or error) and what the tag
\* holds.  text is the pieces of the message or of the one content block.
EnvelopeOf(id, tag, body, code, text, isError, blocks, catalog) ==
  [id |-> id, tag |-> tag, body |-> body, code |-> code, text |-> text,
   isError |-> isError, blocks |-> blocks, tools |-> catalog]

NoEnvelope == EnvelopeOf(Undefined, "none", "none", 0, <<>>, FALSE, 0, <<>>)

\* An error object written without the id of the request.
ErrorEnvelopeNoId(id, code, text) ==
  EnvelopeOf(Undefined, "error", "error", code, text, FALSE, 0, <<>>)

\* { jsonrpc, id, error: { code, message } }
ErrorEnvelope(id, code, text) ==
  EnvelopeOf(id, "error", "error", code, text, FALSE, 0, <<>>)

\* { jsonrpc, id, result: { content: [ { type: 'text', text } ] } }
ContentEnvelope(id, text) ==
  EnvelopeOf(id, "result", "content", 0, text, FALSE, 1, <<>>)

\* A backend failure answered with a result and an error code together.
ApiErrorEnvelopeWithCode(id, text) ==
  EnvelopeOf(id, "result", "content", InternalError, text, TRUE, 1, <<>>)

\* { jsonrpc, id, result: { content: [ { type: 'text', text } ], isError: true } }
ApiErrorEnvelope(id, text) ==
  EnvelopeOf(id, "result", "content", 0, text, TRUE, 1, <<>>)

\* A message that never looks at the backend's error body.
ErrorMessageIgnoresBody(err) == err.msg

\* error.response?.data?.message || error.message
ErrorMessage(err) ==
  IF Truthy(err.respMsg) THEN <<TemplateStr(err.respMsg)>> ELSE err.msg

\* JSON.stringify(response.data): no indentation.
JSONstringify0(data) ==
  CASE data = "data:{ticket:123}" -> "{\"ticket\":123}"
    [] OTHER -> "null"

\* A content block that holds the compact serialization.
SuccessTextCompact(o) == <<JSONstringify0(o.data)>>

\* The text of the content block of a successful call.
SuccessText(o) == <<JSONstringify2(o.data)>>

\* ------------------------------------------------------ server.js requests
\* A decoded request object.  hasParams is whether request.params is there.
RequestOf(id, method, hasParams, name, args) ==
  [id |-> id, method |-> method, hasParams |-> hasParams, name |-> name,
   args |-> args]

NoArgs == ArgsOf("undefined", EmptyFields)
NoRequest == RequestOf(Undefined, Undefined, FALSE, Undefined, NoArgs)

\* A decoded JSON value: an object (a request), null, or a number.
ValueOf(kind, req) == [kind |-> kind, req |-> req]

\* What handleMcpRequest does up to its first await: it returns an envelope,
\* it rejects (raises to its caller), or it waits for a backend call.
Return(env) == [kind |-> "return", env |-> env, err |-> NoError, call |-> NoCall]
Raise(err) == [kind |-> "raise", env |-> NoEnvelope, err |-> err, call |-> NoCall]
Await(call) == [kind |-> "await", env |-> NoEnvelope, err |-> NoError, call |-> call]
NoStep == [kind |-> "none", env |-> NoEnvelope, err |-> NoError, call |-> NoCall]

TypeErrorOf(msg) == ErrorOf("TypeError", 0, <<msg>>, Undefined)

\* A catch block whose internal error does not quote the exception.
CatchJsHidesMessage(id, err) ==
  IF isAxiosError(err)
  THEN ApiErrorEnvelope(id, <<"MetaTrader 5 API error: ">> \o ErrorMessage(err))
  ELSE ErrorEnvelope(id, InternalError, <<"Internal error">>)

\* The catch block of case 'call_tool' in handleMcpRequest.
CatchJs(id, err) ==
  IF isAxiosError(err)
  THEN ApiErrorEnvelope(id, <<"MetaTrader 5 API error: ">> \o ErrorMessage(err))
  ELSE ErrorEnvelope(id, InternalError, <<"Unexpected error: ">> \o err.msg)

\* A call_tool whose argument check throws outside the try block.
CallToolJsRethrows(req) ==
  IF ~req.hasParams
  THEN Raise(TypeErrorOf("Cannot read properties of undefined (reading 'name')"))
  ELSE LET h == SwitchAccountTools("js", req.name, req.args)
       IN CASE h.kind = "unknown" ->
                 Return(ErrorEnvelope(req.id, MethodNotFound,
                                      <<"Unknown tool: ", req.name>>))
            [] h.kind = "throw" -> Raise(h.err)
            [] h.kind = "http" -> Await(h.call)

\* case 'call_tool': the try block up to the handler's await.
CallToolJs(req) ==
  IF ~req.hasParams
  THEN Return(CatchJs(req.id,
         TypeErrorOf("Cannot read properties of undefined (reading 'name')")))
  ELSE LET h == SwitchAccountTools("js", req.name, req.args)
       IN CASE h.kind = "unknown" ->
                 Return(ErrorEnvelope(req.id, MethodNotFound,
                                      <<"Unknown tool: ", req.name>>))
            [] h.kind = "throw" -> Return(CatchJs(req.id, h.err))
            [] h.kind = "http" -> Await(h.call)

\* list_tools answered from the backend: the handler suspends on a call.
ListToolsJsFromBackend(req) == Await(CallOf("api", "GET", <<"/tools">>, EmptyBody))

\* case 'list_tools': the catalog, returned at once.
ListToolsJs(req) ==
  Return(EnvelopeOf(req.id, "result", "tools", 0, <<>>, FALSE, 0, tools))

\* An unknown method reported as an internal error.
DefaultMethodInternalError(req) ==
  Return(ErrorEnvelope(req.id, InternalError, <<"Method not found: ", req.method>>))

\* The default case of switch (request.method).
DefaultMethod(req) ==
  Return(ErrorEnvelope(req.id, MethodNotFound, <<"Method not found: ", req.method>>))

\* handleMcpRequest(request) up to its first await.  request.method of null
\* is a TypeError outside every try; of a number it is undefined.
handleMcpRequest(val) ==
  CASE val.kind = "null" ->
         Raise(TypeErrorOf("Cannot read properties of null (reading 'method')"))
    [] val.kind = "number" ->
         Return(ErrorEnvelope(Undefined, MethodNotFound,
                              <<"Method not found: ", Undefined>>))
    [] val.kind = "object" ->
         CASE val.req.method = "list_tools" -> ListToolsJs(val.req)
           [] val.req.method = "call_tool" -> CallToolJs(val.req)
           [] val.req.method = "initialize" ->
                Return(EnvelopeOf(val.req.id, "result", "init", 0, <<>>, FALSE, 0, <<>>))
           [] OTHER -> DefaultMethod(val.req)

\* handleMcpRequest after the awaited backend call: the handler returns the
\* content block, or rethrows the AxiosError into the catch block.
handleMcpRequestResume(req, o) ==
  IF o.kind = "ok"
  THEN ContentEnvelope(req.id, SuccessText(o))
  ELSE CatchJs(req.id, RejectionOf(o))

\* --------------------------------------------------- mt5-server.ts requests
\* What the CallTool handler gives the SDK: a result, or a thrown McpError.
\* The catch block of the CallToolRequestSchema handler.
CatchTs(id, err) ==
  IF isAxiosError(err)
  THEN Return(ApiErrorEnvelope(id, <<"MetaTrader 5 API error: ">> \o ErrorMessage(err)))
  ELSE IF err.cls = "McpError"
       THEN Raise(err)
       ELSE Raise(ErrorOf("McpError", InternalError,
                          <<"Unexpected error: ">> \o err.msg, Undefined))

\* The CallToolRequestSchema handler up to the tool handler's await.
CallToolTs(req) ==
  LET h == SwitchAllTools("ts", req.name, req.args)
  IN CASE h.kind = "unknown" ->
            CatchTs(req.id, ErrorOf("McpError", MethodNotFound,
                                   <<"Unknown tool: ", req.name>>, Undefined))
       [] h.kind = "throw" -> CatchTs(req.id, h.err)
       [] h.kind = "http" -> Await(h.call)

\* The CallTool handler after the awaited backend call.
CallToolTsResume(req, o) ==
  IF o.kind = "ok"
  THEN Return(ContentEnvelope(req.id, SuccessText(o)))
  ELSE CatchTs(req.id, RejectionOf(o))

\* The ListToolsRequestSchema handler: the literal catalog.
ListToolsTs(req) ==
  Return(EnvelopeOf(req.id, "result", "tools", 0, <<>>, FALSE, 0, toolsTs))

\* The handler the SDK picks for the method of a request.
HandleTs(req) ==
  IF req.method = "list_tools" THEN ListToolsTs(req) ELSE CallToolTs(req)

\* The SDK's Server around a request handler: a returned result is sent as the
\* result of the request, a thrown McpError as an error with its code.
SdkRespond(id, step) ==
  IF step.kind = "return"
  THEN step.env
  ELSE ErrorEnvelope(id, step.err.code, step.err.msg)

\* -------------------------------------------------------------------- text
\* A string is a sequence of characters (UTF-16 units); its .length is Len.
\* A Buffer is a sequence of bytes; an ASCII character is its own byte.
\* The fixed parts of a header are written as tokens of several ASCII
\* characters each: a read may end between two tokens, not inside one, and
\* a token counts as one unit of length.
Replacement == "U+FFFD"

\* 'Content-Length: ' and '\r\n\r\n'
HeaderPrefix == <<"Content-Length", ": ">>
HeaderEnd == <<"\r\n", "\r\n">>

Digits == <<"0", "1", "2", "3", "4", "5", "6", "7", "8", "9">>
IsDigit(c) == c \in Range(Digits)
DigitValue(c) == CHOOSE d \in 0..9 : Digits[d + 1] = c

\* `${n}` of a number n >= 0
RECURSIVE ToDigits(_)
ToDigits(n) ==
  IF n < 10 THEN <<Digits[n + 1]>>
  ELSE ToDigits(n \div 10) \o <<Digits[(n % 10) + 1]>>

\* parseInt(ds, 10) of a run of digits
RECURSIVE parseInt(_)
parseInt(ds) ==
  IF ds = <<>> THEN 0
  ELSE parseInt(SubSeq(ds, 1, Len(ds) - 1)) * 10 + DigitValue(ds[Len(ds)])

\* The UTF-8 bytes of a character: two for 'é', three for U+FFFD.
Utf8Char(c) ==
  CASE c = "é" -> <<"0xC3", "0xA9">>
    [] c = Replacement -> <<"0xEF", "0xBF", "0xBD">>
    [] OTHER -> <<c>>

\* The bytes a string is written as (process.stdout.write of a string).
RECURSIVE Utf8Encode(_)
Utf8Encode(str) ==
  IF str = <<>> THEN <<>> ELSE Utf8Char(Head(str)) \o Utf8Encode(Tail(str))

NonAsciiBytes == {"0xC3", "0xA9", "0xEF", "0xBF", "0xBD"}

\* chunk.toString(): each chunk is decoded on its own, and a byte sequence
\* that is not a whole character decodes to U+FFFD.
RECURSIVE toString(_)
toString(chunk) ==
  IF chunk = <<>> THEN <<>>
  ELSE IF Len(chunk) >= 2 /\ chunk[1] = "0xC3" /\ chunk[2] = "0xA9"
       THEN <<"é">> \o toString(SubSeq(chunk, 3, Len(chunk)))
       ELSE IF Head(chunk) \in NonAsciiBytes
            THEN <<Replacement>> \o toString(Tail(chunk))
            ELSE <<Head(chunk)>> \o toString(Tail(chunk))

\* ------------------------------------------------------------ stdin framer
\* The index after the run of digits that starts at j.
RECURSIVE DigitRunEnd(_, _)
DigitRunEnd(buf, j) ==
  IF j <= Len(buf) /\ IsDigit(buf[j]) THEN DigitRunEnd(buf, j + 1) ELSE j

\* /Content-Length: (\d+)\r\n\r\n/ matches at index i (from 1) of buf.
MatchAt(buf, i) ==
  /\ i + Len(HeaderPrefix) - 1 <= Len(buf)
  /\ buf[i] = HeaderPrefix[1]
  /\ SubSeq(buf, i, i + Len(HeaderPrefix) - 1) = HeaderPrefix
  /\ LET j == i + Len(HeaderPrefix)
         k == DigitRunEnd(buf, j)
     IN /\ k > j
        /\ k + Len(HeaderEnd) - 1 <= Len(buf)
        /\ SubSeq(buf, k, k + Len(HeaderEnd) - 1) = HeaderEnd

\* buffer.match(...): the leftmost match, 0 for no match.
MatchIndex(buf) ==
  LET hits == {i \in 1..Len(buf) : MatchAt(buf, i)}
  IN IF hits = {} THEN 0 ELSE CHOOSE i \in hits : \A j \in hits : i <= j

\* match[1], the digits, and match[0].length
MatchDigits(buf, i) ==
  SubSeq(buf, i + Len(HeaderPrefix), DigitRunEnd(buf, i + Len(HeaderPrefix)) - 1)
MatchLength(buf, i) ==
  Len(HeaderPrefix) + Len(MatchDigits(buf, i)) + Len(HeaderEnd)

\* ----------------------------------------------------- JSON on the stream
\* Requests on the wire are written compactly; one character stands for each
\* member: '{' id method-and-tool '}', with L = list_tools, P = call_tool of
\* get_open_positions with {}, é = call_tool of the tool named 'é',
\* S = call_tool of get_symbol_price with {} (no symbol), I = initialize and
\* M = a method the server does not know.
Ids == {"1", "2", "3", "4"}

WireRequest(id, c) ==
  CASE c = "L" -> RequestOf(id, "list_tools", TRUE, Undefined, NoArgs)
    [] c = "P" -> RequestOf(id, "call_tool", TRUE, "get_open_positions",
                            ArgsOf("object", EmptyFields))
    [] c = "é" -> RequestOf(id, "call_tool", TRUE, "é", ArgsOf("object", EmptyFields))
    [] c = "S" -> RequestOf(id, "call_tool", TRUE, "get_symbol_price",
                            ArgsOf("object", EmptyFields))
    [] c = "I" -> RequestOf(id, "initialize", TRUE, Undefined, NoArgs)
    [] c = "M" -> RequestOf(id, "bogus_method", TRUE, Undefined, NoArgs)

\* JSON.parse(content): the value, or a SyntaxError for any other text.
JSONparse(content) ==
  IF content = <<"n", "u", "l", "l">>
  THEN ValueOf("null", NoRequest)
  ELSE IF /\ Len(content) = 4
          /\ content[1] = "{" /\ content[4] = "}"
          /\ content[2] \in Ids
          /\ content[3] \in {"L", "P", "é", "S", "I", "M"}
       THEN ValueOf("object", WireRequest(content[2], content[3]))
       ELSE ValueOf("SyntaxError", NoRequest)

\* A piece of response text, written out: 'é' as itself, an ASCII piece
\* shortened to one ASCII character (both measures of length shrink alike).
PieceChars(p) == IF p = "é" THEN <<"é">> ELSE <<"a">>

RECURSIVE TextChars(_)
TextChars(text) ==
  IF text = <<>> THEN <<>> ELSE PieceChars(Head(text)) \o TextChars(Tail(text))

\* JSON.stringify(response): an undefined id is left out.
JSONstringify(env) ==
  <<"{">>
  \o (IF env.id = Undefined THEN <<>> ELSE <<env.id>>)
  \o (CASE env.body = "error" ->
             <<"E", "-">> \o ToDigits(0 - env.code) \o TextChars(env.text)
        [] env.body = "content" ->
             <<"R">> \o TextChars(env.text) \o (IF env.isError THEN <<"!">> ELSE <<>>)
        [] env.body = "tools" -> <<"T">>
        [] env.body = "init" -> <<"I">>)
  \o <<"}">>

\* `Content-Length: ${responseContent.length}\r\n\r\n`
ResponseHeader(responseContent) ==
  HeaderPrefix \o ToDigits(Len(responseContent)) \o HeaderEnd

\* The header and the payload written by two calls of write.
WriteResponseInTwoWrites(out, env) ==
  LET responseContent == JSONstringify(env)
  IN out \o <<Utf8Encode(ResponseHeader(responseContent)), Utf8Encode(responseContent)>>

\* process.stdout.write(header + responseContent): one write, of the bytes
\* of the whole string.
WriteResponse(out, env) ==
  LET responseContent == JSONstringify(env)
  IN Append(out, Utf8Encode(ResponseHeader(responseContent) \o responseContent))

\* ------------------------------------------------------------------ inputs
\* A valid argument object of each tool.
BaseFields(name) ==
  CASE name = "get_symbol_price" -> [EmptyFields EXCEPT !["symbol"] = "str:EURUSD"]
    [] name = "create_order" ->
         [EmptyFields EXCEPT !["symbol"] = "str:EURUSD", !["type"] = "str:BUY",
                             !["volume"] = "num:0.1"]
    [] name \in {"modify_order", "close_position", "delete_order"} ->
         [EmptyFields EXCEPT !["ticket"] = "num:7"]
    [] name = "run_optimization" ->
         [EmptyFields EXCEPT !["symbol"] = "str:EURUSD", !["ea"] = "str:x.ex5",
                             !["period"] = "str:H1",
                             !["date_from"] = "str:2024-01-01",
                             !["date_to"] = "str:2024-01-01",
                             !["deposit"] = "num:7", !["params"] = "obj:{}"]
    [] name \in {"get_optimization_status", "get_optimization_results",
                 "save_optimization_results"} ->
         [EmptyFields EXCEPT !["optimization_id"] = "str:abc"]
    [] OTHER -> EmptyFields

\* The objects that differ from those of S in at most k of the fields flds.
RECURSIVE Deviate(_, _, _)
Deviate(S, flds, k) ==
  IF k = 0
  THEN S
  ELSE Deviate(S \cup {[o EXCEPT ![f] = x] : o \in S, f \in flds, x \in FieldValues},
               flds, k - 1)

\* The arguments a call of tool `name` is tried with.
InputArgs(name) ==
  {ArgsOf(k, EmptyFields) : k \in {"undefined", "null", "number", "string"}}
  \cup {ArgsOf("object", f) :
          f \in Deviate({BaseFields(name)}, Declared(name) \cup {"extra"}, MaxDeviations)}

\* Tool names a call may carry: the twelve of mt5-server.ts and two no catalog has.
Names == Range(toolsTs) \cup {"bogus", "é"}

CallToolRequests ==
  UNION {{RequestOf("1", "call_tool", TRUE, n, a) : a \in InputArgs(n)} : n \in Names}

\* A list_tools request.
ListRequest(id) == RequestOf(id, "list_tools", TRUE, Undefined, NoArgs)

\* server.js is handed whatever JSON.parse gave; the SDK hands the CallTool
\* handler of mt5-server.ts only requests that have params.name.
CallRequests(v) ==
  IF v = "js"
  THEN CallToolRequests
       \cup {RequestOf("1", "call_tool", FALSE, Undefined, NoArgs)}
       \cup {RequestOf("1", m, TRUE, Undefined, NoArgs) :
               m \in {"list_tools", "initialize", "bogus_method"}}
  ELSE CallToolRequests \cup {ListRequest("1")}

\* ------------------------------------------------------------------- state
VARIABLES
  cVariant,   \* which server handles the call: "js" or "ts"
  cRequest,   \* the request handed to the handler
  cPhase,     \* "new", "awaiting" (suspended on the backend call), "done"
  cStep,      \* what the handler gave its caller
  cResponse,  \* the envelope sent for the request
  cHttp,      \* the HTTP calls issued, in order
  cOutcome    \* what the backend call came back with

callVars == <<cVariant, cRequest, cPhase, cStep, cResponse, cHttp, cOutcome>>

VARIABLES
  frames,     \* the messages put on standard input (never changes)
  input,      \* the bytes of standard input not yet read
  buffer,     \* `buffer` of server.js
  pending,    \* the invocations of the 'data' listener suspended on a backend call
  stdout,     \* the writes to standard output, in order
  stderr,     \* the console.error lines, in order
  httpLog,    \* the HTTP calls issued, in order
  extracted,  \* every `content` the loop cut out of the buffer, in order
  answered    \* every response written, with the extraction it answers

streamVars ==
  <<frames, input, buffer, pending, stdout, stderr, httpLog, extracted, answered>>

VARIABLES
  proc,       \* the process: running, closing (SIGINT handler awaiting
              \* server.close()) or exited, and its exit status
  transport,  \* the stdio transport of the server: "open" or "closed"
  clients     \* the axios clients made at startup: base address and credential

procVars == <<proc, transport, clients>>

\* axios.create({baseURL, headers}): the base address and the Authorization
\* header every request of the client carries; <<>> is no such header.
ClientOf(baseURL, authorization) ==
  [baseURL |-> baseURL, authorization |-> authorization]
NoClient == ClientOf(Undefined, <<>>)

\* The addresses are the defaults of an environment that sets none.
MT5_API_ENDPOINT == "http://localhost:5555"
MT5_FLASK_API == "http://localhost:5000"

\* process.env.MT5_API_KEY || '': the variable is unset, empty or set.
EnvKeys == {Undefined, "", "secret"}
MT5_API_KEY(env) == IF env \in {Undefined, ""} THEN "" ELSE env

\* Both clients made with the headers of apiClient.
ClientsSharingHeaders(v, key) ==
  LET headers == IF key # "" THEN <<"Bearer ", key>> ELSE <<>>
  IN [key |-> key,
      api |-> ClientOf(MT5_API_ENDPOINT, headers),
      flask |-> IF v = "ts" THEN ClientOf(MT5_FLASK_API, headers) ELSE NoClient]

\* The key read at startup and the clients made with it: the header
\* `Bearer ${MT5_API_KEY}` for apiClient if the key is not empty, none for
\* flaskClient.  server.js has apiClient only.
ClientsOf(v, key) ==
  [key |-> key,
   api |-> ClientOf(MT5_API_ENDPOINT, IF key # "" THEN <<"Bearer ", key>> ELSE <<>>),
   flask |-> IF v = "ts" THEN ClientOf(MT5_FLASK_API, <<>>) ELSE NoClient]

\* What axios sends for a call through a client: the path after the client's
\* base address, with the client's headers.
RequestSent(cl, call) ==
  [url |-> <<cl[call.client].baseURL>> \o call.path,
   method |-> call.method,
   authorization |-> cl[call.client].authorization,
   body |-> call.body]

ProcOf(status, code) == [status |-> status, code |-> code]

\* The process once the server reads standard input.
Running == ProcOf("running", Undefined)

vars ==
  <<cVariant, cRequest, cPhase, cStep, cResponse, cHttp, cOutcome,
    frames, input, buffer, pending, stdout, stderr, httpLog, extracted, answered,
    proc, transport, clients>>

\* A diagnostic written with console.log: a line on standard output.
consoleLog(st, line) == [st EXCEPT !.stdout = Append(st.stdout, <<line.error>>)]

\* console.error(...): a line on the diagnostic stream, standard error.
consoleError(st, line) == [st EXCEPT !.stderr = Append(st.stderr, line)]

\* The line each server writes when it starts: '... running on stdio'.
Banner(v) ==
  [n |-> 0, error |-> IF v = "js" THEN "MetaTrader 5 MCP Server running on stdio"
                                  ELSE "MetaTrader 5 MCP server running on stdio"]

\* ------------------------------------------------ one call, either variant
InitCall ==
  /\ cVariant \in {"js", "ts"}
  /\ cRequest \in CallRequests(cVariant)
  /\ cPhase = "new"
  /\ cStep = NoStep
  /\ cResponse = NoEnvelope
  /\ cHttp = <<>>
  /\ cOutcome = NoOutcome
  /\ frames = <<>> /\ input = <<>> /\ buffer = <<>> /\ pending = {}
  /\ stdout = <<>> /\ stderr = <<Banner(cVariant)>> /\ httpLog = <<>>
  /\ extracted = <<>> /\ answered = <<>>
  /\ proc = Running /\ transport = "open"
  /\ \E env \in EnvKeys : clients = ClientsOf(cVariant, MT5_API_KEY(env))

\* server.js: handleMcpRequest(request) runs to its first await.
JsCall ==
  /\ proc.status # "exited"
  /\ cVariant = "js" /\ cPhase = "new"
  /\ LET step == handleMcpRequest(ValueOf("object", cRequest))
     IN /\ cStep' = step
        /\ cPhase' = IF step.kind = "await" THEN "awaiting" ELSE "done"
        /\ cHttp' = IF step.kind = "await" THEN Append(cHttp, step.call) ELSE cHttp
        /\ cResponse' = IF step.kind = "return" THEN step.env ELSE cResponse
  /\ UNCHANGED <<cVariant, cRequest, cOutcome>>
  /\ UNCHANGED streamVars
  /\ UNCHANGED procVars

\* server.js: the backend call settles and handleMcpRequest returns.
JsHttpDone ==
  /\ proc.status # "exited"
  /\ cVariant = "js" /\ cPhase = "awaiting"
  /\ \E o \in Outcomes :
       LET env == handleMcpRequestResume(cRequest, o)
       IN /\ cStep' = Return(env)
          /\ cResponse' = env
          /\ cOutcome' = o
  /\ cPhase' = "done"
  /\ UNCHANGED <<cVariant, cRequest, cHttp>>
  /\ UNCHANGED streamVars
  /\ UNCHANGED procVars

\* mt5-server.ts: the handler of the request runs to its first await.
TsCall ==
  /\ proc.status # "exited"
  /\ cVariant = "ts" /\ cPhase = "new"
  /\ LET step == HandleTs(cRequest)
     IN /\ cStep' = step
        /\ cPhase' = IF step.kind = "await" THEN "awaiting" ELSE "done"
        /\ cHttp' = IF step.kind = "await" THEN Append(cHttp, step.call) ELSE cHttp
        /\ cResponse' = IF step.kind = "await" THEN cResponse
                        ELSE SdkRespond(cRequest.id, step)
  /\ UNCHANGED <<cVariant, cRequest, cOutcome>>
  /\ UNCHANGED streamVars
  /\ UNCHANGED procVars

\* mt5-server.ts: the backend call settles and the CallTool handler finishes.
TsHttpDone ==
  /\ proc.status # "exited"
  /\ cVariant = "ts" /\ cPhase = "awaiting"
  /\ \E o \in Outcomes :
       LET step == CallToolTsResume(cRequest, o)
       IN /\ cStep' = step
          /\ cResponse' = SdkRespond(cRequest.id, step)
          /\ cOutcome' = o
  /\ cPhase' = "done"
  /\ UNCHANGED <<cVariant, cRequest, cHttp>>
  /\ UNCHANGED streamVars
  /\ UNCHANGED procVars

\* Either server: once a request is answered the client asks for the catalog.
\* cHttp keeps the calls issued so far.
ListToolsAgain ==
  /\ proc.status # "exited"
  /\ cPhase = "done"
  /\ cRequest' = ListRequest("2")
  /\ cPhase' = "new"
  /\ cStep' = NoStep
  /\ cResponse' = NoEnvelope
  /\ cOutcome' = NoOutcome
  /\ UNCHANGED <<cVariant, cHttp>>
  /\ UNCHANGED streamVars
  /\ UNCHANGED procVars

\* server.js, process.on('SIGINT'): a line on stderr, then process.exit(0).
JsSigInt ==
  /\ cVariant = "js" /\ proc.status = "running"
  /\ stderr' = consoleError([stderr |-> stderr],
                             [n |-> 0, error |-> "Shutting down server..."]).stderr
  /\ proc' = ProcOf("exited", 0)
  /\ UNCHANGED <<transport, clients>>
  /\ UNCHANGED callVars
  /\ UNCHANGED <<frames, input, buffer, pending, stdout, httpLog, extracted, answered>>

\* mt5-server.ts, process.on('SIGINT'): the handler starts server.close() and
\* is suspended on it; requests are still handled meanwhile.
TsSigInt ==
  /\ cVariant = "ts" /\ proc.status = "running"
  /\ proc' = ProcOf("closing", Undefined)
  /\ UNCHANGED <<transport, clients>>
  /\ UNCHANGED callVars
  /\ UNCHANGED streamVars

\* mt5-server.ts: server.close() is done, the handler goes on to process.exit(0).
TsCloseDone ==
  /\ cVariant = "ts" /\ proc.status = "closing"
  /\ transport' = "closed"
  /\ UNCHANGED clients
  /\ proc' = ProcOf("exited", 0)
  /\ UNCHANGED callVars
  /\ UNCHANGED streamVars

NextCall ==
  \/ JsCall \/ JsHttpDone \/ TsCall \/ TsHttpDone \/ ListToolsAgain
  \/ JsSigInt \/ TsSigInt \/ TsCloseDone

SpecCall == InitCall /\ [][NextCall]_vars

\* --------------------------------------------------- server.js on a stream
\* The messages a stream is made of.  The header of a frame gives the length
\* of the payload: in characters for "unk" (as server.js writes its own
\* frames), in bytes for "badB"; the two agree on every ASCII payload.
MsgKinds == {"list", "pos", "unk", "inv", "init", "meth", "null", "bad", "badB"}

PayloadText(kind, id) ==
  CASE kind = "list" -> <<"{", id, "L", "}">>
    [] kind = "pos" -> <<"{", id, "P", "}">>
    [] kind = "unk" -> <<"{", id, "é", "}">>
    [] kind = "inv" -> <<"{", id, "S", "}">>
    [] kind = "init" -> <<"{", id, "I", "}">>
    [] kind = "meth" -> <<"{", id, "M", "}">>
    [] kind = "null" -> <<"n", "u", "l", "l">>
    [] kind = "bad" -> <<"{", id>>
    [] kind = "badB" -> <<"{", "é">>

MsgOf(kind, id) ==
  LET text == PayloadText(kind, id)
  IN [kind |-> kind, id |-> id, text |-> text,
      length |-> IF kind = "badB" THEN Len(Utf8Encode(text)) ELSE Len(text)]

\* The bytes of one frame: the header, then the payload.
FrameBytes(msg) ==
  HeaderPrefix \o ToDigits(msg.length) \o HeaderEnd \o Utf8Encode(msg.text)

RECURSIVE StreamBytes(_)
StreamBytes(msgs) ==
  IF msgs = <<>> THEN <<>> ELSE FrameBytes(Head(msgs)) \o StreamBytes(Tail(msgs))

\* The streams of 1..MaxFrames messages; the k-th message has id k.
Streams ==
  UNION {{[k \in 1..n |-> MsgOf(ks[k], ToDigits(k)[1])] : ks \in [1..n -> MsgKinds]} :
           n \in 1..MaxFrames}

\* The backend outcomes tried on a stream.
StreamOutcomes == {o \in Outcomes : o.kind \in {"ok", "transport"}}

\* An invocation of the listener suspended in `await handleMcpRequest(request)`.
NotWaiting == [n |-> 0, req |-> NoRequest, call |-> NoCall]

\* The while (true) loop of the 'data' listener, run until it breaks or
\* suspends on a backend call.  st holds buffer, stdout, stderr, httpLog,
\* extracted, answered and the suspension, if any.
RECURSIVE RunLoop(_)
RunLoop(st) ==
  LET match == MatchIndex(st.buffer)
  IN IF match = 0 THEN st
     ELSE
       LET contentLength == parseInt(MatchDigits(st.buffer, match))
           headerEndIndex == (match - 1) + MatchLength(st.buffer, match)
           contentEndIndex == headerEndIndex + contentLength
       IN IF Len(st.buffer) < contentEndIndex THEN st
          ELSE
            LET content == SubSeq(st.buffer, headerEndIndex + 1, contentEndIndex)
                n == Len(st.extracted) + 1
                cut == [st EXCEPT !.buffer = SubSeq(st.buffer, contentEndIndex + 1,
                                                    Len(st.buffer)),
                                  !.extracted = Append(st.extracted, content)]
                request == JSONparse(content)
                step == handleMcpRequest(request)
            IN CASE request.kind = "SyntaxError" ->
                      RunLoop(consoleError(cut, [n |-> n, error |-> "SyntaxError"]))
                 [] request.kind # "SyntaxError" /\ step.kind = "raise" ->
                      RunLoop(consoleError(cut, [n |-> n, error |-> step.err.cls]))
                 [] request.kind # "SyntaxError" /\ step.kind = "return" ->
                      RunLoop([cut EXCEPT
                                 !.stdout = WriteResponse(st.stdout, step.env),
                                 !.answered = Append(st.answered,
                                                     [n |-> n, env |-> step.env])])
                 [] request.kind # "SyntaxError" /\ step.kind = "await" ->
                      [cut EXCEPT !.httpLog = Append(st.httpLog, step.call),
                                  !.waiting = [n |-> n, req |-> request.req,
                                               call |-> step.call]]

LoopState(buf, out) ==
  [buffer |-> buf, stdout |-> out, stderr |-> stderr, httpLog |-> httpLog,
   extracted |-> extracted, answered |-> answered, waiting |-> NotWaiting]

Init ==
  /\ frames \in Streams
  /\ input = StreamBytes(frames)
  /\ buffer = <<>> /\ pending = {}
  /\ stdout = <<>> /\ stderr = <<Banner("js")>> /\ httpLog = <<>>
  /\ extracted = <<>> /\ answered = <<>>
  /\ cVariant = "js" /\ cRequest = NoRequest /\ cPhase = "idle"
  /\ cStep = NoStep /\ cResponse = NoEnvelope /\ cHttp = <<>>
  /\ cOutcome = NoOutcome
  /\ proc = Running /\ transport = "open"
  /\ clients = ClientsOf("js", MT5_API_KEY(Undefined))

\* process.stdin.on('data', async (chunk) => ...): a read event delivers the
\* next bytes, cut anywhere, and the listener runs until it ends or suspends.
Data ==
  /\ proc.status = "running"
  /\ input # <<>>
  /\ \E size \in 1..Len(input) :
       LET chunk == SubSeq(input, 1, size)
           st == RunLoop(LoopState(buffer \o toString(chunk), stdout))
       IN /\ input' = SubSeq(input, size + 1, Len(input))
          /\ buffer' = st.buffer
          /\ stdout' = st.stdout
          /\ stderr' = st.stderr
          /\ httpLog' = st.httpLog
          /\ extracted' = st.extracted
          /\ answered' = st.answered
          /\ pending' = IF st.waiting = NotWaiting THEN pending
                        ELSE pending \cup {st.waiting}
  /\ UNCHANGED <<frames>>
  /\ UNCHANGED callVars
  /\ UNCHANGED procVars

\* The backend call of a suspended invocation settles: the invocation writes
\* its response and goes on with its loop on the buffer as it is now.
\* `request` read as a variable shared by all invocations of the listener:
\* the request decoded last.
LastParsedRequest(w) == JSONparse(extracted[Len(extracted)]).req

\* `const request = JSON.parse(content)`: each invocation of the listener has
\* its own, and resumes with the one it was suspended with.
ClosureRequest(w) == w.req

HttpDone ==
  /\ proc.status = "running"
  /\ \E w \in pending, o \in StreamOutcomes :
       LET env == handleMcpRequestResume(ClosureRequest(w), o)
           st == RunLoop([LoopState(buffer, WriteResponse(stdout, env))
                            EXCEPT !.answered = Append(answered,
                                                       [n |-> w.n, env |-> env])])
       IN /\ buffer' = st.buffer
          /\ stdout' = st.stdout
          /\ stderr' = st.stderr
          /\ httpLog' = st.httpLog
          /\ extracted' = st.extracted
          /\ answered' = st.answered
          /\ pending' = (pending \ {w})
                        \cup (IF st.waiting = NotWaiting THEN {} ELSE {st.waiting})
  /\ UNCHANGED <<frames, input>>
  /\ UNCHANGED callVars
  /\ UNCHANGED procVars

Next == Data \/ HttpDone \/ JsSigInt

Spec == Init /\ [][Next]_vars

\* ================================================================== claims
\* ---- one call (SpecCall)
IsCallTool == cRequest.method = "call_tool" /\ cRequest.hasParams

UnknownToolCall == IsCallTool /\ cRequest.name \notin Range(Catalog(cVariant))

\* C1: a call_tool request whose tool name is not in the server's catalog is
\* answered, without waiting for anything, by an error envelope with the
\* MethodNotFound code, and no HTTP call is issued.
C1_UnknownToolIsMethodNotFound ==
  (UnknownToolCall /\ cPhase # "new") =>
    /\ cPhase = "done"
    /\ cResponse.tag = "error"
    /\ cResponse.code = MethodNotFound
    /\ cHttp = <<>>

\* server.js has answered a call of run_optimization, which only the catalog
\* of mt5-server.ts holds, with MethodNotFound.
C1_Witness ==
  /\ cPhase = "done" /\ cVariant = "js"
  /\ cRequest.name = "run_optimization"
  /\ UnknownToolCall
  /\ cResponse.code = MethodNotFound

\* A call of a catalogued tool whose argument object lacks a required parameter.
MissingRequired ==
  /\ IsCallTool
  /\ cRequest.name \in Range(Catalog(cVariant))
  /\ cRequest.args.kind = "object"
  /\ \E f \in Required(cRequest.name) : cRequest.args.fields[f] = Undefined

\* C2: a call of a registered tool that omits a required parameter is answered
\* by an error envelope with the InvalidParams code, and no HTTP call is issued.
C2_MissingRequiredIsInvalidParams ==
  (MissingRequired /\ cPhase # "new") =>
    /\ cPhase = "done"
    /\ cResponse.tag = "error"
    /\ cResponse.code = InvalidParams
    /\ cHttp = <<>>

BackendFailed == cPhase = "done" /\ cOutcome.kind \in {"status", "transport"}

ApiErrorText(msg) == <<"MetaTrader 5 API error: ">> \o msg

\* C3 as stated: after a non-2xx answer or a transport failure the response is
\* a result with one text block marked isError, whose text is the prefix
\* followed by the error body's message field if present, else the error text.
C3_MessageFieldIfPresent ==
  BackendFailed =>
    /\ cResponse.tag = "result" /\ cResponse.blocks = 1 /\ cResponse.isError
    /\ cResponse.text =
         ApiErrorText(IF cOutcome.respMsg # Undefined
                      THEN <<TemplateStr(cOutcome.respMsg)>>
                      ELSE cOutcome.msg)

\* C3 amended: the message field is used if it is present and not empty (not
\* falsy); an absent or empty message field gives the error's own text.
C3_MessageFieldIfNotEmpty ==
  BackendFailed =>
    /\ cResponse.tag = "result" /\ cResponse.blocks = 1 /\ cResponse.isError
    /\ cResponse.text =
         ApiErrorText(IF cOutcome.respMsg \notin {Undefined, "str:"}
                      THEN <<TemplateStr(cOutcome.respMsg)>>
                      ELSE cOutcome.msg)
    /\ (cOutcome.respMsg = "str:MT5 not initialized" =>
          cResponse.text = <<"MetaTrader 5 API error: ", "MT5 not initialized">>)

\* The backend answered 500 with {message: 'MT5 not initialized'}.
C3_Witness ==
  /\ BackendFailed
  /\ cOutcome.kind = "status"
  /\ cOutcome.respMsg = "str:MT5 not initialized"
  /\ cResponse.text = <<"MetaTrader 5 API error: ", "MT5 not initialized">>
  /\ cResponse.isError

\* C4 as stated: whatever the tool name, the arguments and the backend
\* outcome, the handler of a call_tool request returns the response envelope
\* to its caller and never raises.
C4_HandlerNeverRaises ==
  (cPhase = "done" /\ cRequest.method = "call_tool") =>
    /\ cStep.kind = "return"
    /\ cResponse.tag \in {"result", "error"}

\* C4 amended: whatever the tool name, the arguments and the backend outcome,
\* a call_tool request ends with a response envelope, tagged result or error.
\* handleMcpRequest of server.js never rejects; the CallTool handler of
\* mt5-server.ts returns a result or throws an McpError, never anything else.
C4_CallToolAlwaysAnswers ==
  (cPhase = "done" /\ cRequest.method = "call_tool") =>
    /\ cResponse.tag \in {"result", "error"}
    /\ cResponse.id = cRequest.id
    /\ cVariant = "js" => cStep.kind = "return"
    /\ cVariant = "ts" =>
         \/ cStep.kind = "return"
         \/ cStep.kind = "raise" /\ cStep.err.cls = "McpError"

\* A call_tool request without params: the TypeError of reading
\* request.params.name is caught and answered as an internal error.
C4_Witness ==
  /\ cPhase = "done" /\ cVariant = "js"
  /\ cRequest.method = "call_tool" /\ ~cRequest.hasParams
  /\ cResponse.tag = "error" /\ cResponse.code = InternalError

\* ---- server.js on a stream (Spec)
\* Every byte was read and no invocation is suspended.
Quiescent == input = <<>> /\ pending = {}

FrameIndexes == 1..Len(frames)

\* No payload of the stream has a character of more than one byte.
AsciiStream == \A k \in FrameIndexes : frames[k].kind \notin {"unk", "badB"}

\* The responses written for the n-th extracted content.
ResponsesTo(n) == {i \in 1..Len(answered) : answered[i].n = n}

\* C5 (on streams of ASCII payloads, where the k-th extraction is the k-th
\* frame): a frame whose payload decodes as JSON gets exactly one response,
\* never two, and one once the stream is read and every call has settled.
C5_OneResponsePerDecodableFrame ==
  AsciiStream =>
    /\ \A k \in FrameIndexes : Cardinality(ResponsesTo(k)) <= 1
    /\ Quiescent =>
         \A k \in FrameIndexes :
           JSONparse(frames[k].text).kind # "SyntaxError" =>
             Cardinality(ResponsesTo(k)) = 1

\* C6: at most one request is being handled at any time.
C6_OneRequestAtATime == Cardinality(pending) <= 1

\* The payloads of the stream, and how many frames have arrived whole.
Texts == [k \in FrameIndexes |-> frames[k].text]
BytesRead == Len(StreamBytes(frames)) - Len(input)
FramesArrived ==
  Cardinality({k \in FrameIndexes : Len(StreamBytes(SubSeq(frames, 1, k))) <= BytesRead})

\* Every header of the stream is written as server.js writes its own.
OutboundFramed == \A k \in FrameIndexes : frames[k].length = Len(frames[k].text)

\* C7: messages framed by the outbound rule and read in chunks cut anywhere
\* come out of the decoder as they went in, in order, none before its whole
\* payload has arrived and all of them once the stream is read.
C7_FramingRoundTrip ==
  OutboundFramed =>
    /\ Len(extracted) <= FramesArrived
    /\ extracted = SubSeq(Texts, 1, Len(extracted))
    /\ Quiescent => extracted = Texts

\* Every header of the stream gives the byte length of its payload.
ByteFramed == \A k \in FrameIndexes : frames[k].length = Len(Utf8Encode(frames[k].text))

Undecodable(k) == JSONparse(frames[k].text).kind = "SyntaxError"
IsRequest(k) == JSONparse(frames[k].text).kind = "object"

\* C8: once the stream is read and every call has settled, a frame whose
\* payload cannot be decoded and that a request frame follows has left a
\* line on stderr and no response, and the request after it has its response.
C8_BadFrameDoesNotEndStream ==
  (ByteFramed /\ Quiescent) =>
    \A j, k \in FrameIndexes :
      (Undecodable(j) /\ k > j /\ IsRequest(k)) =>
        /\ \E i \in 1..Len(stderr) : stderr[i].n = j
        /\ ResponsesTo(j) = {}
        /\ \E i \in 1..Len(answered) : answered[i].env.id = frames[k].id

\* The number in the header of a written frame, and the bytes after the header.
HeaderValue(chunk) == parseInt(MatchDigits(chunk, 1))
PayloadBytes(chunk) == SubSeq(chunk, MatchLength(chunk, 1) + 1, Len(chunk))

\* C9: the length in the header of every frame written is the number of
\* bytes of the payload that follows it.
C9_HeaderIsByteLength ==
  \A i \in 1..Len(stdout) : HeaderValue(stdout[i]) = Len(PayloadBytes(stdout[i]))

\* C10: every write to standard output is one whole frame, the header of a
\* response and then the payload of that same response, whatever the order
\* in which the suspended requests complete.
C10_FramesWrittenWhole ==
  /\ Len(stdout) = Len(answered)
  /\ \A i \in 1..Len(stdout) :
       /\ MatchIndex(stdout[i]) = 1
       /\ PayloadBytes(stdout[i]) = Utf8Encode(JSONstringify(answered[i].env))

\* Two requests were suspended together and the second was answered first.
C10_Witness ==
  /\ Len(stdout) = 2
  /\ answered[1].n = 2 /\ answered[2].n = 1
  /\ httpLog = <<handleGetOpenPositions.call, handleGetOpenPositions.call>>

\* ---- argument validation (SpecCall)
\* A call of a catalogued tool with an argument object.
CatalogCall ==
  /\ IsCallTool
  /\ cRequest.name \in Range(Catalog(cVariant))
  /\ cRequest.args.kind = "object"

\* The type of a present value as a schema names it: null is no object.
RunTimeType(x) == IF x = JsNull THEN "null" ELSE TypeOf(x)

\* Some declared parameter of the called tool is present with another type
\* than the one the tool declares for it.
Mistyped ==
  /\ CatalogCall
  /\ \E f \in Declared(cRequest.name) :
       /\ cRequest.args.fields[f] # Undefined
       /\ RunTimeType(cRequest.args.fields[f]) # DeclaredType(f)

\* The call was turned down before any HTTP call.
Rejected == cPhase = "done" /\ cResponse.tag = "error" /\ cHttp = <<>>

\* C11: a call of a registered tool with a declared parameter, required or
\* optional, present with another type than the declared one is rejected as
\* invalid and issues no HTTP call.
C11_MistypedIsRejected == (Mistyped /\ cPhase # "new") => Rejected

\* Some declared parameter of the called tool holds a string that the enum
\* the tool declares for it does not list.
OutsideEnum ==
  /\ CatalogCall
  /\ \E f \in Declared(cRequest.name) :
       /\ TypeOf(cRequest.args.fields[f]) = "string"
       /\ cRequest.args.fields[f] \notin DeclaredEnum(f)

\* C12: a call whose optimization_mode (run_optimization) or format
\* (save_optimization_results) is outside the values its enum allows is
\* rejected by validation and issues no HTTP call.
C12_OutsideEnumIsRejected == (OutsideEnum /\ cPhase # "new") => Rejected

\* The arguments satisfy the called tool's inputSchema: every required
\* parameter is there and every declared parameter that is there has its
\* declared type and, if it has an enum, one of the enum's values.
ValidArgs ==
  /\ CatalogCall
  /\ \A f \in Required(cRequest.name) : cRequest.args.fields[f] # Undefined
  /\ \A f \in Declared(cRequest.name) :
       cRequest.args.fields[f] # Undefined =>
         /\ RunTimeType(cRequest.args.fields[f]) = DeclaredType(f)
         /\ cRequest.args.fields[f] \in DeclaredEnum(f)

\* C13: a call whose arguments are valid and carry, in addition, a property
\* the tool does not declare is not rejected: its HTTP call is issued.
C13_ExcessFieldsTolerated ==
  (ValidArgs /\ cRequest.args.fields["extra"] # Undefined /\ cPhase # "new") =>
    /\ ~Rejected
    /\ Len(cHttp) = 1

\* create_order with its three required parameters and an undeclared
\* property was answered with the backend's data.
C13_Witness ==
  /\ ValidArgs
  /\ cRequest.name = "create_order"
  /\ cRequest.args.fields["extra"] = "str:abc"
  /\ cPhase = "done" /\ cResponse.tag = "result" /\ ~cResponse.isError
  /\ Len(cHttp) = 1

\* ---- the backend call of a valid tool call (SpecCall)
\* The backend, the method and the path the tool table gives a tool, with the
\* argument written into the path as it is.
ExpectedClient(name) ==
  IF name \in {"run_optimization", "get_optimization_status",
               "get_optimization_results", "save_optimization_results"}
  THEN "flask" ELSE "api"

ExpectedMethod(name) ==
  CASE name \in {"create_order", "run_optimization", "save_optimization_results"} -> "POST"
    [] name = "modify_order" -> "PUT"
    [] name \in {"close_position", "delete_order"} -> "DELETE"
    [] OTHER -> "GET"

ExpectedPath(name, fields) ==
  CASE name = "get_account_info" ->
         IF fields["account"] = Undefined
         THEN <<"/account">>
         ELSE <<"/account/", TemplateStr(fields["account"])>>
    [] name = "get_symbol_price" -> <<"/symbol/", TemplateStr(fields["symbol"])>>
    [] name = "get_open_positions" -> <<"/positions">>
    [] name = "get_pending_orders" -> <<"/orders">>
    [] name = "create_order" -> <<"/order">>
    [] name \in {"modify_order", "delete_order"} ->
         <<"/order/", TemplateStr(fields["ticket"])>>
    [] name = "close_position" -> <<"/position/", TemplateStr(fields["ticket"])>>
    [] name = "run_optimization" -> <<"/optimize">>
    [] name = "get_optimization_status" ->
         <<"/optimization_status/", TemplateStr(fields["optimization_id"])>>
    [] name = "get_optimization_results" ->
         <<"/optimization_results/", TemplateStr(fields["optimization_id"])>>
    [] name = "save_optimization_results" -> <<"/save_results">>

\* C14: a valid tool call issues exactly one HTTP request, to the backend and
\* with the method and the path of its tool, the argument being the path
\* segment unmodified; nothing more is issued when the call is over.
C14_OneCallToTheToolsEndpoint ==
  (ValidArgs /\ cPhase # "new") =>
    /\ Len(cHttp) = 1
    /\ cHttp[1].client = ExpectedClient(cRequest.name)
    /\ cHttp[1].method = ExpectedMethod(cRequest.name)
    /\ cHttp[1].path = ExpectedPath(cRequest.name, cRequest.args.fields)

\* ---- the answer to a successful backend call (SpecCall)
BackendSucceeded == cPhase = "done" /\ cOutcome.kind = "ok"

\* The JSON value a text of a content block stands for (JSON.parse of it).
JsonValueOf(text) ==
  CASE text \in {"{\"ticket\":123}", "{\n  \"ticket\": 123\n}"} -> "data:{ticket:123}"
    [] text = "null" -> "data:null"
    [] OTHER -> "SyntaxError"

\* The example call: create_order {symbol: 'EURUSD', type: 'BUY', volume: 0.1}.
ExampleOrder ==
  /\ cRequest.name = "create_order"
  /\ cRequest.args = ArgsOf("object", BaseFields("create_order"))

\* C15 as stated: a successful backend call is answered by a result with one
\* text block; for the example order one POST /order with the arguments as
\* body was issued and, for the body {ticket: 123}, the block's text is
\* {"ticket":123}.
C15_BlockIsCompactJson ==
  BackendSucceeded =>
    /\ cResponse.tag = "result" /\ cResponse.blocks = 1 /\ ~cResponse.isError
    /\ Len(cResponse.text) = 1
    /\ JsonValueOf(cResponse.text[1]) = cOutcome.data
    /\ ExampleOrder =>
         /\ Len(cHttp) = 1
         /\ cHttp[1].method = "POST" /\ cHttp[1].path = <<"/order">>
         /\ cHttp[1].body = BodyOf(cRequest.args.fields)
         /\ cOutcome.data = "data:{ticket:123}" =>
              cResponse.text = <<"{\"ticket\":123}">>

\* C15 amended: the text is the serialization indented by two spaces, which
\* stands for the backend's body; for {ticket: 123} it is the three lines
\* '{', '  "ticket": 123', '}'.
C15_BlockIsIndentedJson ==
  BackendSucceeded =>
    /\ cResponse.tag = "result" /\ cResponse.blocks = 1 /\ ~cResponse.isError
    /\ Len(cResponse.text) = 1
    /\ JsonValueOf(cResponse.text[1]) = cOutcome.data
    /\ ExampleOrder =>
         /\ Len(cHttp) = 1
         /\ cHttp[1].method = "POST" /\ cHttp[1].path = <<"/order">>
         /\ cHttp[1].body = BodyOf(cRequest.args.fields)
         /\ cOutcome.data = "data:{ticket:123}" =>
              cResponse.text = <<"{\n  \"ticket\": 123\n}">>

\* The example order was answered after the backend's 200 {ticket: 123}.
C15_Witness ==
  /\ BackendSucceeded /\ ExampleOrder
  /\ cOutcome.data = "data:{ticket:123}"
  /\ cHttp = <<CallOf("api", "POST", <<"/order">>, BodyOf(BaseFields("create_order")))>>
  /\ cResponse.tag = "result"

\* ---- the ids of the responses of server.js (Spec)
\* The id of the request the n-th extracted content decodes to.
RequestId(n) == JSONparse(extracted[n]).req.id

\* C16: every response written carries the id of the request it answers, in
\* the envelope and in the bytes of its frame: for initialize, list_tools,
\* call_tool and unknown methods, for results and errors, and in whatever
\* order the suspended requests complete.
C16_ResponseCarriesRequestId ==
  /\ Len(stdout) = Len(answered)
  /\ \A i \in 1..Len(answered) :
       /\ answered[i].n \in 1..Len(extracted)
       /\ answered[i].env.id = RequestId(answered[i].n)
       /\ PayloadBytes(stdout[i])[2] = RequestId(answered[i].n)
       /\ AsciiStream => answered[i].env.id = frames[answered[i].n].id

\* Two calls were suspended together; the second was answered first, each
\* with its own id.
C16_Witness ==
  /\ Len(answered) = 2
  /\ frames[1].kind = "pos" /\ frames[2].kind = "pos"
  /\ answered[1].n = 2 /\ answered[1].env.id = "2"
  /\ answered[2].n = 1 /\ answered[2].env.id = "1"
  /\ PayloadBytes(stdout[1])[2] = "2" /\ PayloadBytes(stdout[2])[2] = "1"

\* ---- the shape of a response (SpecCall)
\* What a result holds and an error does not: content blocks, a catalog, the
\* server's identity.  What an error holds and a result does not: a code and
\* a message.
HoldsResult(env) ==
  env.body \in {"content", "tools", "init"} \/ env.blocks > 0 \/ env.tools # <<>> \/ env.isError
HoldsError(env) == env.body = "error" \/ env.code # 0

\* C17: the response to every request has exactly one tag: a result, which
\* then holds no error code, or an error with its code and message, which
\* then holds no content; never both and never neither.
C17_ExactlyOneTag ==
  cPhase = "done" =>
    /\ cResponse.tag \in {"result", "error"}
    /\ HoldsResult(cResponse) # HoldsError(cResponse)
    /\ cResponse.tag = "result" <=> HoldsResult(cResponse)
    /\ cResponse.tag = "error" =>
         /\ cResponse.code \in {MethodNotFound, InvalidParams, InternalError}
         /\ cResponse.text # <<>>
    /\ (cResponse.tag = "result" /\ cResponse.body = "content") => cResponse.blocks = 1

\* A backend failure was answered: a result marked isError, with no code.
C17_Witness ==
  /\ cPhase = "done" /\ cOutcome.kind = "transport"
  /\ cResponse.tag = "result" /\ cResponse.isError /\ cResponse.code = 0

\* ---- unexpected failures (SpecCall)
\* The exception of a failure that is neither an HTTP client error nor a
\* protocol error (unknown tool, invalid arguments): the TypeError of a
\* call_tool request without params in server.js, or an exception under the
\* awaited call that is no AxiosError.
UnexpectedMessage ==
  IF cOutcome.kind = "other"
  THEN cOutcome.msg
  ELSE <<"Cannot read properties of undefined (reading 'name')">>

UnexpectedFailure ==
  /\ cPhase = "done"
  /\ cRequest.method = "call_tool"
  /\ cOutcome.kind = "other" \/ (cVariant = "js" /\ ~cRequest.hasParams)

\* text holds msg as a run of consecutive pieces.
Contains(text, msg) ==
  \E i \in 1..Len(text) : SubSeq(text, i, i + Len(msg) - 1) = msg

\* C18: a failure of a tool call that is neither an HTTP client error nor a
\* protocol error is answered by an error envelope with the InternalError
\* code whose message holds the exception's message, and no HTTP call follows
\* the failure.
C18_UnexpectedIsInternalError ==
  UnexpectedFailure =>
    /\ cResponse.tag = "error"
    /\ cResponse.code = InternalError
    /\ Contains(cResponse.text, UnexpectedMessage)
    /\ Len(cHttp) = (IF cOutcome.kind = "other" THEN 1 ELSE 0)

\* mt5-server.ts wrapped an exception that is neither an AxiosError nor an
\* McpError into an McpError with the InternalError code.
C18_Witness ==
  /\ UnexpectedFailure /\ cVariant = "ts" /\ cOutcome.kind = "other"
  /\ cStep.kind = "raise" /\ cStep.err.cls = "McpError"
  /\ cStep.err.code = InternalError
  /\ cResponse.text = <<"Unexpected error: ", "Invalid character in header content">>

\* ---- the catalog (SpecCall)
EightTools ==
  <<"get_account_info", "get_symbol_price", "get_open_positions",
    "get_pending_orders", "create_order", "modify_order", "close_position",
    "delete_order">>

TwelveTools ==
  EightTools \o <<"run_optimization", "get_optimization_status",
                  "get_optimization_results", "save_optimization_results">>

ListAnswered == cRequest.method = "list_tools" /\ cPhase = "done"

C20_TransportClosedBeforeExit ==
  proc.status = "exited" => (proc.code = 0 /\ transport = "closed")

\* ------------------------------------------------------------------- C21
\* The lines of the diagnostic stream after the startup banner, and those of
\* them that report a request that could not be processed.
Diagnostics == SubSeq(stderr, 2, Len(stderr))
DecodeErrors == {i \in 2..Len(stderr) : stderr[i].n > 0}
ShutdownNotices == {i \in 2..Len(stderr) : stderr[i].error = "Shutting down server..."}

\* A chunk of standard output is one response frame: the Content-Length
\* header at its start, the blank line, then one JSON object to the end.
IsResponseFrame(chunk) ==
  /\ MatchIndex(chunk) = 1
  /\ LET payload == PayloadBytes(chunk)
     IN /\ Len(payload) >= 2
        /\ payload[1] = "{" /\ payload[Len(payload)] = "}"
        /\ \A i \in 2..Len(payload) : MatchAt(payload, i) = FALSE

\* C21: standard output is reserved for protocol frames.  Everything written
\* to it is a complete response frame, one per answered request; the startup
\* banner, the report of every request that could not be processed and the
\* shutdown notice are on the diagnostic stream and nowhere else: every
\* extracted frame is answered on standard output, reported on the diagnostic
\* stream, or still waiting for the backend, and never two of these.
C21_StdoutHoldsOnlyFrames ==
  /\ \A i \in 1..Len(stdout) : IsResponseFrame(stdout[i])
  /\ Len(stdout) = Len(answered)
  /\ stderr[1] = Banner("js")
  /\ \A i \in 2..Len(stderr) : i \in DecodeErrors \/ i \in ShutdownNotices
  /\ Cardinality(ShutdownNotices) = (IF proc.status = "exited" THEN 1 ELSE 0)
  /\ \A i \in DecodeErrors : ResponsesTo(stderr[i].n) = {}
  /\ Len(extracted) = Len(stdout) + Cardinality(DecodeErrors) + Cardinality(pending)

\* Witness: a response frame on standard output, a decode error and the
\* shutdown notice on the diagnostic stream, all in one run.
C21_Witness ==
  /\ Len(stdout) >= 1
  /\ DecodeErrors # {}
  /\ ShutdownNotices # {}
  /\ \E i \in DecodeErrors : stderr[i].error = "SyntaxError"

\* ------------------------------------------------------------------- C22
\* The k-th frame is a call_tool request, and a response with its id that
\* reports a failure has been written: an error object or an isError result.
CallFrame(k) == frames[k].kind \in {"pos", "unk", "inv"}
FailedCall(k) ==
  /\ CallFrame(k)
  /\ \E i \in 1..Len(answered) :
       /\ answered[i].env.id = frames[k].id
       /\ answered[i].env.tag = "error" \/ answered[i].env.isError

\* C22: no bad call ends the process.  The process exits on SIGINT only, and
\* once the stream is read and every call has settled, the request that
\* follows a failed call (unknown tool, invalid arguments, a backend that
\* could not be reached) has its response too.
C22_BadCallDoesNotEndServer ==
  /\ proc.status = "exited" => ShutdownNotices # {}
  /\ (Quiescent /\ proc.status = "running") =>
       \A j, k \in FrameIndexes :
         (FailedCall(j) /\ k = j + 1 /\ IsRequest(k)) =>
           \E i \in 1..Len(answered) : answered[i].env.id = frames[k].id

\* The same on streams whose payloads are ASCII.
C22_OnAsciiStreams == AsciiStream => C22_BadCallDoesNotEndServer

\* A failed call of each kind is followed by an answered request.
C22_Reached ==
  /\ Quiescent /\ proc.status = "running" /\ Len(frames) = 2 /\ AsciiStream
  /\ FailedCall(1) /\ IsRequest(2)

\* ------------------------------------------------------------------- C23
\* s is what is left of t after cutting something off its front.
IsSuffix(s, t) ==
  /\ Len(s) <= Len(t)
  /\ s = SubSeq(t, Len(t) - Len(s) + 1, Len(t))

\* The responses from the i-th on, of those written (ans) for the contents
\* extracted (ext), are each the one its own request gives, alone or with one
\* of the replies the backend can make.
FreshResponses(from, ans, ext) ==
  \A i \in from..Len(ans) :
    LET request == JSONparse(ext[ans[i].n])
        step == handleMcpRequest(request)
    IN /\ request.kind # "SyntaxError"
       /\ step.kind \in {"return", "await"}
       /\ step.kind = "return" => ans[i].env = step.env
       /\ step.kind = "await" =>
            \E o \in StreamOutcomes :
              ans[i].env = handleMcpRequestResume(request.req, o)

\* C23: handling requests leaves the process-wide state alone.  In every
\* step the clients made at startup keep their base address and credential
\* and every call goes to one of them; the input buffer only gains the text
\* of the bytes read and loses the frames cut off its front; and the
\* responses written so far stay as they are while each response the step
\* writes is the one its request and the backend's reply give, whatever was
\* handled before it.  (The tool catalog is a constant: nothing assigns
\* to it.)
C23_RequestsLeaveProcessStateAlone ==
  [][/\ clients' = clients
     /\ \A i \in (Len(httpLog) + 1)..Len(httpLog') :
          clients[httpLog'[i].client] # NoClient
     /\ IsSuffix(buffer',
                 buffer \o toString(SubSeq(input, 1, Len(input) - Len(input'))))
     /\ SubSeq(answered', 1, Len(answered)) = answered
     /\ FreshResponses(Len(answered) + 1, answered', extracted')]_vars

\* Witness: the same call twice, answered out of order and differently since
\* the backend replied differently, with text left in the buffer meanwhile.
C23_Witness ==
  /\ Len(frames) = 2 /\ frames[1].kind = "pos" /\ frames[2].kind = "pos"
  /\ Len(answered) = 2
  /\ answered[1].n = 2 /\ answered[2].n = 1
  /\ answered[1].env.isError /\ ~answered[2].env.isError
  /\ Len(httpLog) = 2

\* ------------------------------------------------------------------- C24
\* The request decoded from the n-th extracted content, and whether it is a
\* request of a method the server does not know.
Decoded(n) == JSONparse(extracted[n])
UnknownMethod(n) ==
  /\ Decoded(n).kind = "object"
  /\ Decoded(n).req.method \notin {"initialize", "list_tools", "call_tool"}

\* The calls the extracted requests account for: one for each request that
\* the handler suspends on.
CallingRequests ==
  {n \in 1..Len(extracted) :
     Decoded(n).kind = "object" /\ handleMcpRequest(Decoded(n)).kind = "await"}

\* C24: a request of any other method than initialize, list_tools and
\* call_tool is answered, once, with an error object of code -32601 that has
\* the id of the request and names the method; no HTTP call is issued for it.
C24_UnknownMethodIsMethodNotFound ==
  /\ \A n \in 1..Len(extracted) :
       UnknownMethod(n) =>
         /\ Cardinality(ResponsesTo(n)) = 1
         /\ \A i \in ResponsesTo(n) :
              /\ answered[i].env.tag = "error"
              /\ answered[i].env.code = MethodNotFound
              /\ answered[i].env.id = Decoded(n).req.id
              /\ answered[i].env.text = <<"Method not found: ", Decoded(n).req.method>>
              /\ ~answered[i].env.isError
         /\ n \notin CallingRequests
  /\ Len(httpLog) = Cardinality(CallingRequests)

\* Witness: a request of an unknown method, answered while a tool call
\* extracted before it is still waiting for the backend.
C24_Witness ==
  /\ Len(extracted) = 2 /\ UnknownMethod(2)
  /\ ResponsesTo(2) # {} /\ ResponsesTo(1) = {}
  /\ pending # {} /\ Len(httpLog) = 1

\* ------------------------------------------------------------------- C25
\* A call of get_account_info whose params have no `arguments` member.
AccountInfoWithoutArguments ==
  /\ IsCallTool
  /\ cRequest.name = "get_account_info"
  /\ cRequest.args.kind = "undefined"

\* C25: get_account_info has no required parameter, so a call that supplies
\* no arguments at all is valid: it is not answered before a call is made,
\* and the one call it issues is GET /account to the Account backend.
C25_NoArgumentsIsGetAccount ==
  (AccountInfoWithoutArguments /\ cPhase # "new") =>
    /\ cHttp = <<CallOf("api", "GET", <<"/account">>, EmptyBody)>>
    /\ cPhase = "done" => cOutcome # NoOutcome

\* The same call with an empty argument object is valid and goes to /account.
C25_EmptyObjectIsGetAccount ==
  (/\ IsCallTool /\ cRequest.name = "get_account_info"
   /\ cRequest.args = ArgsOf("object", EmptyFields) /\ cPhase # "new") =>
    cHttp = <<CallOf("api", "GET", <<"/account">>, EmptyBody)>>

\* ------------------------------------------------------------------- C26
\* A call of get_account_info with an argument object that the validator
\* accepts: account absent, or a number.
AccountInfoCall ==
  /\ IsCallTool
  /\ cRequest.name = "get_account_info"
  /\ cRequest.args.kind = "object"
  /\ TypeOf(cRequest.args.fields["account"]) \in {"undefined", "number"}

\* C26: get_account_info requests /account/{account} whenever an account
\* number is provided, whatever the number, and /account only when none is.
C26_AccountPathForEveryNumber ==
  (AccountInfoCall /\ cPhase # "new") =>
    /\ Len(cHttp) = 1
    /\ cHttp[1].method = "GET"
    /\ cHttp[1].path =
         (IF cRequest.args.fields["account"] = Undefined
          THEN <<"/account">>
          ELSE <<"/account/", TemplateStr(cRequest.args.fields["account"])>>)

\* The same for the account numbers that are not zero.
C26_AccountPathForNonZero ==
  (AccountInfoCall /\ cRequest.args.fields["account"] # "num:0") =>
    C26_AccountPathForEveryNumber

\* ------------------------------------------------------------------- C27
\* A tool call that got as far as its backend call.
CallIssued == IsCallTool /\ Len(cHttp) = 1

\* The members of the request body that are there (undefined ones are not
\* written into the JSON of a body).
BodyMembers(body) == {f \in AllFields : body.fields[f] # Undefined}

\* C27: modify_order sends PUT /order/{ticket} with a body of sl and tp as
\* given and nothing else, so neither the ticket nor any further member of
\* the arguments; create_order, run_optimization and
\* save_optimization_results send the whole argument object as body.
C27_ModifySendsSlTpOthersForwardAll ==
  CallIssued =>
    /\ cRequest.name = "modify_order" =>
         /\ cHttp[1].method = "PUT"
         /\ cHttp[1].path = <<"/order/", TemplateStr(cRequest.args.fields["ticket"])>>
         /\ cHttp[1].body.present
         /\ BodyMembers(cHttp[1].body) \subseteq {"sl", "tp"}
         /\ cHttp[1].body.fields["sl"] = cRequest.args.fields["sl"]
         /\ cHttp[1].body.fields["tp"] = cRequest.args.fields["tp"]
    /\ cRequest.name \in {"create_order", "run_optimization",
                          "save_optimization_results"} =>
         /\ cHttp[1].method = "POST"
         /\ cHttp[1].body = BodyOf(cRequest.args.fields)

\* Witness: modify_order called with a ticket and a stop; the ticket is in
\* the path and the body has the stop only.
C27_Witness ==
  /\ CallIssued /\ cRequest.name = "modify_order"
  /\ cRequest.args.fields["ticket"] = "num:7"
  /\ cHttp[1].path = <<"/order/", "7">>
  /\ BodyMembers(cHttp[1].body) = {"sl"}

\* Reached as well: create_order forwarding an undeclared member, and
\* modify_order dropping one.
C27_ForwardReached ==
  /\ CallIssued /\ cRequest.name = "create_order"
  /\ cHttp[1].body.fields["extra"] # Undefined
C27_DropReached ==
  /\ CallIssued /\ cRequest.name = "modify_order"
  /\ cRequest.args.fields["extra"] # Undefined
  /\ BodyMembers(cHttp[1].body) = {}

\* ------------------------------------------------------------------- C28
\* A call of run_optimization in mt5-server.ts with an argument object.
RunOptimizationCall ==
  /\ cVariant = "ts" /\ IsCallTool
  /\ cRequest.name = "run_optimization"
  /\ cRequest.args.kind = "object"

\* params is no object: null, or a value of another type, or absent.
ParamsNotAnObject == RunTimeType(cRequest.args.fields["params"]) # "object"

\* other_options is there and is no object.
OtherOptionsNotAnObject ==
  /\ cRequest.args.fields["other_options"] # Undefined
  /\ RunTimeType(cRequest.args.fields["other_options"]) # "object"

\* C28: run_optimization requires params to be an object: a call whose
\* params is null, or whose other_options is present and no object, is
\* rejected by the validation and issues no HTTP call.
C28_ParamsMustBeAnObject ==
  (/\ RunOptimizationCall /\ cPhase # "new"
   /\ ParamsNotAnObject \/ OtherOptionsNotAnObject) => Rejected

\* The part that holds: params absent or of another type than object and null.
C28_ParamsOfAnotherType ==
  (/\ RunOptimizationCall /\ cPhase # "new"
   /\ TypeOf(cRequest.args.fields["params"]) # "object") => Rejected

\* ------------------------------------------------------------------- C29
\* How often the n-th extracted content was dispatched: it is answered, or
\* its invocation is suspended on the backend call, or its failure is logged.
Dispatches(n) ==
  Cardinality(ResponsesTo(n))
  + Cardinality({w \in pending : w.n = n})
  + Cardinality({i \in 2..Len(stderr) : stderr[i].n = n})

\* C29: each complete frame is extracted and dispatched exactly once, in
\* stream order: the contents cut out of the buffer are the payloads of the
\* frames, one after the other; each is dispatched once; and once the stream
\* is read and every call has settled none is missing; this in every
\* interleaving of read events with suspended invocations.
C29_EachFrameDispatchedOnce ==
  /\ Len(extracted) <= Len(frames)
  /\ \A n \in 1..Len(extracted) :
       /\ extracted[n] = frames[n].text
       /\ Dispatches(n) = 1
  /\ Quiescent => Len(extracted) = Len(frames)

\* The same on streams whose payloads are ASCII.
C29_OnAsciiStreams == AsciiStream => C29_EachFrameDispatchedOnce

\* Reached: a read event re-enters the loop and extracts the second frame
\* while the invocation that extracted the first is suspended.
C29_Reentered ==
  /\ AsciiStream /\ Len(extracted) = 2
  /\ \E w \in pending : w.n = 1
  /\ Dispatches(2) = 1

AnsweredAtOnce(n) ==
  /\ Decoded(n).kind = "object"
  /\ \/ Decoded(n).req.method # "call_tool"
     \/ SwitchAllTools("js", Decoded(n).req.name, Decoded(n).req.args).kind # "http"

ListedTools(v) ==
  Range(IF v = "js"
        THEN handleMcpRequest(ValueOf("object", ListRequest("1"))).env.tools
        ELSE SdkRespond("1", HandleTs(ListRequest("1"))).tools)

\* The call was not dispatched to a handler: it is answered MethodNotFound.
AnsweredMethodNotFound ==
  /\ cPhase = "done"
  /\ cResponse.tag = "error"
  /\ cResponse.code = MethodNotFound

\* C31: in each server the catalog and the dispatcher agree: the name of a
\* call_tool request is one that list_tools returns if and only if the call
\* is dispatched to a handler and not answered MethodNotFound, whatever its
\* arguments are and whatever the handler then does.
C31_CatalogAndDispatcherAgree ==
  (IsCallTool /\ cPhase # "new") =>
    (cRequest.name \in ListedTools(cVariant) <=> ~AnsweredMethodNotFound)

\* Witness: save_optimization_results, which mt5-server.ts lists, got to its
\* handler there, and the handler rejected the arguments.
C31_Witness ==
  /\ IsCallTool /\ cVariant = "ts" /\ cPhase = "done"
  /\ cRequest.name = "save_optimization_results"
  /\ cRequest.name \in ListedTools("ts") /\ cRequest.name \notin ListedTools("js")
  /\ cResponse.tag = "error" /\ cResponse.code = InvalidParams

\* Reached as well: the same name, which server.js does not list, answered
\* MethodNotFound by server.js.
C31_NotListedReached ==
  /\ IsCallTool /\ cVariant = "js" /\ cRequest.name = "save_optimization_results"
  /\ AnsweredMethodNotFound

\* ------------------------------------------------------------------- C32
\* The requests sent for the calls issued so far.
RequestsSent == {[client |-> cHttp[i].client, sent |-> RequestSent(clients, cHttp[i])] :
                   i \in 1..Len(cHttp)}

\* C32: the bearer credential goes to the Account backend only, and only if
\* a key that is not empty was configured: a request carries an
\* Authorization header exactly if it goes to the Account backend's address
\* and the key is not empty, the header is then `Bearer ` and the key, and
\* no request to the Optimization backend carries one.
C32_BearerOnlyToAccountBackend ==
  \A r \in RequestsSent :
    /\ r.sent.authorization # <<>> <=> (r.client = "api" /\ clients.key # "")
    /\ r.sent.authorization # <<>> =>
         /\ r.sent.authorization = <<"Bearer ", clients.key>>
         /\ r.sent.url[1] = MT5_API_ENDPOINT
    /\ r.client = "flask" =>
         /\ r.sent.authorization = <<>>
         /\ r.sent.url[1] = MT5_FLASK_API

\* Witness: with a key configured, mt5-server.ts has sent run_optimization
\* to the Optimization backend, without the header.
C32_Witness ==
  /\ cVariant = "ts" /\ clients.key = "secret"
  /\ cRequest.name = "run_optimization"
  /\ \E r \in RequestsSent : r.client = "flask" /\ r.sent.authorization = <<>>

\* Reached as well: a request to the Account backend with the header, and
\* one without it when the key is empty.
C32_WithKeyReached ==
  \E r \in RequestsSent : r.sent.authorization = <<"Bearer ", "secret">>
C32_WithoutKeyReached ==
  /\ clients.key = ""
  /\ \E r \in RequestsSent : r.client = "api"

\* ------------------------------------------------------------------- C33
\* A call of one of the eight account tools, which both servers have.
AccountToolCall == IsCallTool /\ cRequest.name \in Range(tools)

\* What the other server does with the request of this state: its handler
\* up to the first await, and its answer given the same backend outcome.
OtherFirstStep ==
  IF cVariant = "js"
  THEN HandleTs(cRequest)
  ELSE handleMcpRequest(ValueOf("object", cRequest))

OtherAnswer ==
  IF cVariant = "js"
  THEN SdkRespond(cRequest.id,
                  IF OtherFirstStep.kind = "await"
                  THEN CallToolTsResume(cRequest, cOutcome)
                  ELSE OtherFirstStep)
  ELSE IF OtherFirstStep.kind = "await"
       THEN handleMcpRequestResume(cRequest, cOutcome)
       ELSE OtherFirstStep.env

\* The two answers have the same tag, error code and content.
SameAnswer(a, b) ==
  /\ a.tag = b.tag
  /\ a.code = b.code
  /\ a.text = b.text
  /\ a.isError = b.isError
  /\ a.blocks = b.blocks

\* C33: server.js and mt5-server.ts are equivalent on the eight account
\* tools: for every tool name, argument value and backend outcome the two
\* issue the same HTTP request and return the same envelope tag, error code
\* and content.
C33_VariantsEquivalentOnAccountTools ==
  (AccountToolCall /\ cPhase = "done") =>
    /\ cHttp = (IF OtherFirstStep.kind = "await" THEN <<OtherFirstStep.call>> ELSE <<>>)
    /\ SameAnswer(cResponse, OtherAnswer)

\* The part that holds: the two issue the same HTTP request, and whenever a
\* request is issued they return the same answer for the same outcome.
C33_SameRequestSameAnswerOnceIssued ==
  (AccountToolCall /\ cPhase = "done") =>
    /\ cHttp = (IF OtherFirstStep.kind = "await" THEN <<OtherFirstStep.call>> ELSE <<>>)
    /\ cHttp # <<>> => SameAnswer(cResponse, OtherAnswer)

\* Apart from the code, rejected arguments are answered alike.
C33_RejectionsDifferInCodeOnly ==
  (AccountToolCall /\ cPhase = "done" /\ cHttp = <<>>) =>
    /\ cResponse.tag = "error" /\ OtherAnswer.tag = "error"
    /\ cResponse.code \in {InvalidParams, InternalError}
    /\ OtherAnswer.code \in {InvalidParams, InternalError}

====
